---- MODULE Spec2Model ----
(***************************************************************************)
(* Model of the voice-command resolution code of server.js:                *)
(*   - the string helpers the resolver relies on (toLowerCase, trim,       *)
(*     includes, the Dice bigram similarity),                              *)
(*   - parseOperation / extractNumber,                                     *)
(*   - resolveCurrentProtocol / resolveNewProtocol / compareProtocols /    *)
(*     compareGoogleSttVersions,                                           *)
(*   - the POST /live-count/parse-command response validation,             *)
(*   - the RequestQueue that serialises the Google Speech calls and the    *)
(*     retry loop of the transcription jobs, with the answer of            *)
(*     POST /audio/transcribe-live-count,                                  *)
(*   - the counts store of POST /daily-count/process,                      *)
(*   - the inventory-hash cache of cache.js,                               *)
(*   - validateProjectName and POST /projects/save-master-list,            *)
(*   - the global alias store: the auto-save of                            *)
(*     POST /audio/transcribe-mapping, GET /aliases and POST /aliases.     *)
(* A JavaScript string is a sequence of one-character strings.             *)
(***************************************************************************)
EXTENDS Integers, Sequences, FiniteSets, TLC

VARIABLES req, resp, queue, processing, current, jobState, retryCount, attempts, outcome, promise, settleCount, submitOrder, startOrder, response,
          counts, countAnswer, cache, got, stored, projectDirs, saveAnswer,
          globalAliases, lastSave, clientAliases, autoSaved

vars == <<req, resp, queue, processing, current, jobState, retryCount, attempts, outcome, promise, settleCount, submitOrder, startOrder, response,
          counts, countAnswer, cache, got, stored, projectDirs, saveAnswer,
          globalAliases, lastSave, clientAliases, autoSaved>>

engineVars == <<req, resp>>

queueVars == <<queue, processing, current, jobState, retryCount, attempts, outcome, promise, settleCount, submitOrder, startOrder, response>>

countsVars == <<counts, countAnswer>>

cacheVars == <<cache, got, stored>>

projectVars == <<projectDirs, saveAnswer>>

aliasVars == <<globalAliases, lastSave, clientAliases, autoSaved>>

storeVars == <<countsVars, cacheVars, projectVars, aliasVars>>

(***************************************************************************)
(* Bounds of the model.                                                    *)
(***************************************************************************)
MaxAlts == 2

NumJobs == 3

\* words per generated transcript, characters per generated string
MaxWords == 2

MaxStrLen == 3

\* the largest quantity of a count command, the largest magnitude of a count
MaxQty == 2

MaxCount == 3

(***************************************************************************)
(* JavaScript values.                                                      *)
(***************************************************************************)
\* null / undefined: a value that is no string of the program
Null == <<"<null>">>

\* the sentinel string 'UNMAPPED'
UNMAPPED == <<"U","N","M","A","P","P","E","D">>

UpperChars == <<"A","B","C","D","E","F","G","H","I","J","K","L","M","N","O","P","Q","R","S","T","U","V","W","X","Y","Z">>

LowerChars == <<"a","b","c","d","e","f","g","h","i","j","k","l","m","n","o","p","q","r","s","t","u","v","w","x","y","z">>

DigitChars == <<"0","1","2","3","4","5","6","7","8","9">>

Range(s) == {s[i] : i \in 1..Len(s)}

\* the lower-case letter of every upper-case letter
LowerOf == [c \in Range(UpperChars) |-> LowerChars[CHOOSE i \in 1..26 : UpperChars[i] = c]]

\* String.prototype.toLowerCase, one character
ToLowerChar(c) == IF c \in DOMAIN LowerOf THEN LowerOf[c] ELSE c

\* String.prototype.toLowerCase
RECURSIVE ToLowerCase(_)
ToLowerCase(s) == IF s = <<>> THEN <<>> ELSE <<ToLowerChar(Head(s))>> \o ToLowerCase(Tail(s))

IsSpace(c) == c = " "

\* String.prototype.trim
Trim(s) ==
    IF \A i \in 1..Len(s) : IsSpace(s[i])
    THEN <<>>
    ELSE LET first == CHOOSE i \in 1..Len(s) : ~IsSpace(s[i]) /\ \A k \in 1..(i-1) : IsSpace(s[k])
             last  == CHOOSE i \in 1..Len(s) : ~IsSpace(s[i]) /\ \A k \in (i+1)..Len(s) : IsSpace(s[k])
         IN SubSeq(s, first, last)

\* String.prototype.includes
Includes(s, t) == \E i \in 1..(Len(s) - Len(t) + 1) : SubSeq(s, i, i + Len(t) - 1) = t

\* the characters \w and \d of the regular expressions match
WordChars == Range(UpperChars) \cup Range(LowerChars) \cup Range(DigitChars) \cup {"_"}

Digits == Range(DigitChars)

IsWordChar(c) == c \in WordChars

IsDigit(c) == c \in Digits

\* /\bw\b/.test(s) for a word w that begins and ends with a word character
HasWord(s, w) ==
    \E i \in 1..(Len(s) - Len(w) + 1) :
        /\ SubSeq(s, i, i + Len(w) - 1) = w
        /\ (i = 1 \/ ~IsWordChar(s[i-1]))
        /\ (i + Len(w) - 1 = Len(s) \/ ~IsWordChar(s[i + Len(w)]))

(***************************************************************************)
(* calculateSimilarity: Dice coefficient over the bigram sets.  The float  *)
(* is kept as the exact fraction <<numerator, denominator>>.               *)
(***************************************************************************)
Bigrams(s) == {<<s[i], s[i+1]>> : i \in 1..(Len(s) - 1)}

\* the Dice coefficient with twice the first bigram set as its denominator
calculateSimilarity_FirstDenominator(str1, str2) ==
    IF str1 = str2 THEN <<1, 1>>
    ELSE IF Len(str1) < 2 \/ Len(str2) < 2 THEN <<0, 1>>
    ELSE <<2 * Cardinality(Bigrams(str1) \cap Bigrams(str2)), 2 * Cardinality(Bigrams(str1))>>

calculateSimilarity(str1, str2) ==
    IF str1 = str2 THEN <<1, 1>>
    ELSE IF Len(str1) < 2 \/ Len(str2) < 2 THEN <<0, 1>>
    ELSE <<2 * Cardinality(Bigrams(str1) \cap Bigrams(str2)),
           Cardinality(Bigrams(str1)) + Cardinality(Bigrams(str2))>>

\* a < b, a >= b on fractions with positive denominators
FracLess(a, b) == a[1] * b[2] < b[1] * a[2]

FracGeq(a, b) == ~FracLess(a, b)

FracEq(a, b) == a[1] * b[2] = b[1] * a[2]

(***************************************************************************)
(* parseOperation and extractNumber.                                       *)
(***************************************************************************)
EraseWords == {<<"e","r","a","s","e">>, <<"c","l","e","a","r">>, <<"d","e","l","e","t","e">>, <<"z","e","r","o">>}

AddWords == {<<"a","d","d">>, <<"p","l","u","s">>, <<"a","n","d">>}

SubtractWords == {<<"s","u","b","t","r","a","c","t">>, <<"m","i","n","u","s">>, <<"t","a","k","e"," ","a","w","a","y">>, <<"r","e","m","o","v","e">>}

SetWords == {<<"a","t">>, <<"e","q","u","a","l","s">>, <<"i","s">>, <<"s","e","t">>}

\* the ADD vocabulary tested before the ERASE vocabulary
parseOperation_AddFirst(transcript) ==
    LET lower == ToLowerCase(transcript)
    IN IF \E w \in AddWords : HasWord(lower, w) THEN "ADD"
       ELSE IF \E w \in EraseWords : HasWord(lower, w) THEN "ERASE"
       ELSE IF \E w \in SubtractWords : HasWord(lower, w) THEN "SUBTRACT"
       ELSE "SET"

parseOperation(transcript) ==
    LET lower == ToLowerCase(transcript)
    IN IF \E w \in EraseWords : HasWord(lower, w) THEN "ERASE"
       ELSE IF \E w \in AddWords : HasWord(lower, w) THEN "ADD"
       ELSE IF \E w \in SubtractWords : HasWord(lower, w) THEN "SUBTRACT"
       ELSE IF \E w \in SetWords : HasWord(lower, w) THEN "SET"
       ELSE "SET"

\* the numberWords table, as <<word, value>> pairs
numberWords ==
    {<<<<"z","e","r","o">>, 0>>,
     <<<<"o","n","e">>, 1>>,
     <<<<"t","w","o">>, 2>>,
     <<<<"t","h","r","e","e">>, 3>>,
     <<<<"f","o","u","r">>, 4>>,
     <<<<"f","i","v","e">>, 5>>,
     <<<<"s","i","x">>, 6>>,
     <<<<"s","e","v","e","n">>, 7>>,
     <<<<"e","i","g","h","t">>, 8>>,
     <<<<"n","i","n","e">>, 9>>,
     <<<<"t","e","n">>, 10>>,
     <<<<"e","l","e","v","e","n">>, 11>>,
     <<<<"t","w","e","l","v","e">>, 12>>,
     <<<<"t","h","i","r","t","e","e","n">>, 13>>,
     <<<<"f","o","u","r","t","e","e","n">>, 14>>,
     <<<<"f","i","f","t","e","e","n">>, 15>>,
     <<<<"s","i","x","t","e","e","n">>, 16>>,
     <<<<"s","e","v","e","n","t","e","e","n">>, 17>>,
     <<<<"e","i","g","h","t","e","e","n">>, 18>>,
     <<<<"n","i","n","e","t","e","e","n">>, 19>>,
     <<<<"t","w","e","n","t","y">>, 20>>,
     <<<<"t","h","i","r","t","y">>, 30>>,
     <<<<"f","o","r","t","y">>, 40>>,
     <<<<"f","i","f","t","y">>, 50>>,
     <<<<"s","i","x","t","y">>, 60>>,
     <<<<"s","e","v","e","n","t","y">>, 70>>,
     <<<<"e","i","g","h","t","y">>, 80>>,
     <<<<"n","i","n","e","t","y">>, 90>>,
     <<<<"h","u","n","d","r","e","d">>, 100>>}

\* lower-case names every object inherits from Object.prototype:
\* numberWords[word] is defined (a function or an object, no number) for
\* them although the table does not list them
ProtoWords == {<<"c","o","n","s","t","r","u","c","t","o","r">>, <<"_","_","p","r","o","t","o","_","_">>}

\* a JavaScript number n, null, and a value that is neither
Num(n) == [t |-> "number", n |-> n]

NullValue == [t |-> "null", n |-> 0]

NonNumberValue == [t |-> "object", n |-> 0]

DigitVal(c) == (CHOOSE i \in 1..10 : DigitChars[i] = c) - 1

RECURSIVE ParseInt(_)
ParseInt(digits) ==
    IF digits = <<>> THEN 0
    ELSE 10 * ParseInt(SubSeq(digits, 1, Len(digits) - 1)) + DigitVal(digits[Len(digits)])

\* the matches of /\b\d+\b/ : <<first, last>> positions of a digit run with a
\* word boundary on both sides
DigitRuns(s) ==
    {p \in (1..Len(s)) \X (1..Len(s)) :
        /\ p[1] <= p[2]
        /\ \A k \in p[1]..p[2] : IsDigit(s[k])
        /\ (p[1] = 1 \/ ~IsWordChar(s[p[1] - 1]))
        /\ (p[2] = Len(s) \/ ~IsWordChar(s[p[2] + 1]))}

\* String.prototype.split(/\s+/)
RECURSIVE SplitSpaces(_)
SplitSpaces(s) ==
    IF \A i \in 1..Len(s) : ~IsSpace(s[i]) THEN <<s>>
    ELSE LET i == CHOOSE k \in 1..Len(s) : IsSpace(s[k]) /\ \A m \in 1..(k-1) : ~IsSpace(s[m])
             j == CHOOSE k \in i..Len(s) : (\A m \in i..k : IsSpace(s[m])) /\ (k = Len(s) \/ ~IsSpace(s[k+1]))
         IN <<SubSeq(s, 1, i - 1)>> \o SplitSpaces(SubSeq(s, j + 1, Len(s)))

IsNumberWord(w) == (\E e \in numberWords : e[1] = w) \/ w \in ProtoWords

NumberWordValue(w) ==
    IF \E e \in numberWords : e[1] = w
    THEN Num((CHOOSE e \in numberWords : e[1] = w)[2])
    ELSE NonNumberValue

extractNumber(transcript) ==
    IF DigitRuns(transcript) # {}
    THEN LET m == CHOOSE p \in DigitRuns(transcript) : \A q \in DigitRuns(transcript) : p[1] <= q[1]
         IN Num(ParseInt(SubSeq(transcript, m[1], m[2])))
    ELSE LET words == SplitSpaces(ToLowerCase(transcript))
         IN IF \E i \in 1..Len(words) : IsNumberWord(words[i])
            THEN NumberWordValue(words[CHOOSE i \in 1..Len(words) :
                     IsNumberWord(words[i]) /\ \A k \in 1..(i-1) : ~IsNumberWord(words[k])])
            ELSE NullValue

(***************************************************************************)
(* resolveCurrentProtocol / resolveNewProtocol.                            *)
(* The alias dictionary is the sequence of its entries in Object.entries   *)
(* order: [canonical |-> string, aliases |-> sequence of values].          *)
(***************************************************************************)
\* an alias that is no string: alias.toLowerCase() throws a TypeError
NumberAlias == <<"<number>">>

IsStr(v) == v \notin {Null, NumberAlias}

AliasConfidence == <<95, 100>>

ExactConfidence == <<90, 100>>

NoConfidence == <<0, 1>>

\* a fuzzy match accepted from 0.50 on
FuzzyThresholdNew_Half == <<50, 100>>

\* bestSimilarity >= 0.60 of resolveNewProtocol
FuzzyThresholdNew == <<60, 100>>

\* bestSimilarity >= 0.70 of resolveCurrentProtocol
FuzzyThresholdCurrent == <<70, 100>>

\* confidence < 0.85 / confidence >= 0.85 of compareProtocols
ConfirmThreshold == <<85, 100>>

\* the (canonical, alias) pairs in the order the two nested loops visit them
RECURSIVE AliasPairs(_)
AliasPairs(dict) ==
    IF dict = <<>> THEN <<>>
    ELSE [i \in 1..Len(dict[1].aliases) |-> <<dict[1].canonical, dict[1].aliases[i]>>]
         \o AliasPairs(Tail(dict))

\* the alias loop: the first pair that ends it, either by a hit
\* (lower.includes(alias.toLowerCase())) or by the TypeError of a non-string
AliasStops(lower, pair) == ~IsStr(pair[2]) \/ Includes(lower, ToLowerCase(pair[2]))

AliasMatch(lower, dict) ==
    LET pairs == AliasPairs(dict)
    IN IF \E i \in 1..Len(pairs) : AliasStops(lower, pairs[i])
       THEN LET i == CHOOSE k \in 1..Len(pairs) :
                        AliasStops(lower, pairs[k]) /\ \A m \in 1..(k-1) : ~AliasStops(lower, pairs[m])
            IN IF IsStr(pairs[i][2])
               THEN [kind |-> "hit", canonical |-> pairs[i][1]]
               ELSE [kind |-> "throw", canonical |-> Null]
       ELSE [kind |-> "miss", canonical |-> Null]

\* the exact-match loop: the first master item contained in the transcript
ExactMatch(lower, masterList) ==
    IF \E i \in 1..Len(masterList) : Includes(lower, ToLowerCase(masterList[i]))
    THEN masterList[CHOOSE i \in 1..Len(masterList) :
             /\ Includes(lower, ToLowerCase(masterList[i]))
             /\ \A k \in 1..(i-1) : ~Includes(lower, ToLowerCase(masterList[k]))]
    ELSE Null

\* the fuzzy loop: [bestMatch, bestSimilarity] after the first n items
RECURSIVE FuzzyBest(_, _, _)
FuzzyBest(lower, masterList, n) ==
    IF n = 0 THEN [bestMatch |-> Null, bestSimilarity |-> NoConfidence]
    ELSE LET prev == FuzzyBest(lower, masterList, n - 1)
             similarity == calculateSimilarity(lower, ToLowerCase(masterList[n]))
         IN IF FracLess(prev.bestSimilarity, similarity)
            THEN [bestMatch |-> masterList[n], bestSimilarity |-> similarity]
            ELSE prev

Unresolved == [canonicalItem |-> UNMAPPED, confidence |-> NoConfidence, source |-> "none"]

Thrown == [canonicalItem |-> Null, confidence |-> NoConfidence, source |-> "throw"]

\* the callback with a fuzzy tier that accepts any best match
ResolveVariant_NoFloor(trans, masterList, dict) ==
    LET lower == Trim(ToLowerCase(trans))
        alias == AliasMatch(lower, dict)
        exact == ExactMatch(lower, masterList)
        fuzzy == FuzzyBest(lower, masterList, Len(masterList))
    IN IF alias.kind = "throw" THEN Thrown
       ELSE IF alias.kind = "hit"
       THEN [canonicalItem |-> alias.canonical, confidence |-> AliasConfidence, source |-> "alias"]
       ELSE IF exact # Null
       THEN [canonicalItem |-> exact, confidence |-> ExactConfidence, source |-> "exact"]
       ELSE IF fuzzy.bestMatch # Null
       THEN [canonicalItem |-> fuzzy.bestMatch, confidence |-> fuzzy.bestSimilarity, source |-> "fuzzy"]
       ELSE Unresolved

\* the callback of allTranscripts.map in resolveNewProtocol, one variant
ResolveVariant(trans, masterList, dict) ==
    LET lower == Trim(ToLowerCase(trans))
        alias == AliasMatch(lower, dict)
        exact == ExactMatch(lower, masterList)
        fuzzy == FuzzyBest(lower, masterList, Len(masterList))
    IN IF alias.kind = "throw" THEN Thrown
       ELSE IF alias.kind = "hit"
       THEN [canonicalItem |-> alias.canonical, confidence |-> AliasConfidence, source |-> "alias"]
       ELSE IF exact # Null
       THEN [canonicalItem |-> exact, confidence |-> ExactConfidence, source |-> "exact"]
       ELSE IF fuzzy.bestMatch # Null /\ FracGeq(fuzzy.bestSimilarity, FuzzyThresholdNew)
       THEN [canonicalItem |-> fuzzy.bestMatch, confidence |-> fuzzy.bestSimilarity, source |-> "fuzzy"]
       ELSE Unresolved

resolveCurrentProtocol(transcript, masterList, dict) ==
    LET lower == Trim(ToLowerCase(transcript))
        alias == AliasMatch(lower, dict)
        exact == ExactMatch(lower, masterList)
        fuzzy == FuzzyBest(lower, masterList, Len(masterList))
    IN IF alias.kind = "throw" THEN Thrown
       ELSE IF alias.kind = "hit"
       THEN [canonicalItem |-> alias.canonical, confidence |-> AliasConfidence, source |-> "alias"]
       ELSE IF exact # Null
       THEN [canonicalItem |-> exact, confidence |-> ExactConfidence, source |-> "exact"]
       ELSE IF FracGeq(fuzzy.bestSimilarity, FuzzyThresholdCurrent)
       THEN [canonicalItem |-> fuzzy.bestMatch, confidence |-> fuzzy.bestSimilarity, source |-> "fuzzy"]
       ELSE Unresolved

\* Set.prototype.add on the insertion-ordered topChoices set
SetAdd(seq, x) == IF x \in Range(seq) THEN seq ELSE Append(seq, x)

\* the topChoices set after the variants 1..n have been resolved
RECURSIVE TopChoicesSet(_, _)
TopChoicesSet(results, n) ==
    IF n = 0 THEN <<>>
    ELSE IF results[n].source \in {"none", "throw"} THEN TopChoicesSet(results, n - 1)
    ELSE SetAdd(TopChoicesSet(results, n - 1), results[n].canonicalItem)

\* results.sort((a, b) => b.confidence - a.confidence): stable, descending
RECURSIVE InsertDesc(_, _)
InsertDesc(sorted, r) ==
    IF sorted = <<>> THEN <<r>>
    ELSE IF FracLess(Head(sorted).confidence, r.confidence) THEN <<r>> \o sorted
    ELSE <<Head(sorted)>> \o InsertDesc(Tail(sorted), r)

RECURSIVE SortByConfidence(_, _)
SortByConfidence(results, n) ==
    IF n = 0 THEN <<>>
    ELSE InsertDesc(SortByConfidence(results, n - 1), results[n])

\* Array.from(topChoices).slice(0, 3), then padded with 'UNMAPPED'
PadTopChoices(choices) ==
    LET sliced == SubSeq(choices, 1, IF Len(choices) < 3 THEN Len(choices) ELSE 3)
    IN sliced \o [i \in 1..(3 - Len(sliced)) |-> UNMAPPED]

resolveNewProtocol(transcript, alternatives, masterList, dict) ==
    LET allTranscripts == <<transcript>> \o alternatives
        results == [i \in 1..Len(allTranscripts) |-> ResolveVariant(allTranscripts[i], masterList, dict)]
        best == Head(SortByConfidence(results, Len(results)))
    IN IF \E i \in 1..Len(results) : results[i].source = "throw"
       THEN [threw |-> TRUE, canonicalItem |-> Null, confidence |-> NoConfidence,
             matchType |-> "throw", topChoices |-> <<>>]
       ELSE [threw |-> FALSE, canonicalItem |-> best.canonicalItem, confidence |-> best.confidence,
             matchType |-> best.source, topChoices |-> PadTopChoices(TopChoicesSet(results, Len(results)))]

(***************************************************************************)
(* compareProtocols: the two resolutions side by side.                     *)
(***************************************************************************)
\* value of a resolution: currentOperation === 'ERASE' ? 0 : extractNumber(transcript)
ValueFor(operation, transcript) == IF operation = "ERASE" THEN Num(0) ELSE extractNumber(transcript)

\* needsConfirmation: confidence < 0.85
NeedsConfirmation(confidence) == FracLess(confidence, ConfirmThreshold)

\* ShouldAutoSave with the candidate floor 0.60 in place of 0.85
ShouldAutoSave_CandidateFloor(result) ==
    FracGeq(result.confidence, FuzzyThresholdNew) /\ result.canonicalItem # UNMAPPED

\* shouldAutoSave: newResult.confidence >= 0.85 && newResult.canonicalItem !== 'UNMAPPED'
ShouldAutoSave(result) == FracGeq(result.confidence, ConfirmThreshold) /\ result.canonicalItem # UNMAPPED

compareProtocols(transcript, alternatives, masterList, dict) ==
    LET currentResult == resolveCurrentProtocol(transcript, masterList, dict)
        newResult == resolveNewProtocol(transcript, alternatives, masterList, dict)
        operation == parseOperation(transcript)
        value == ValueFor(operation, transcript)
    IN IF currentResult.source = "throw" \/ newResult.threw
       THEN [kind |-> "compare", threw |-> TRUE]
       ELSE [kind |-> "compare", threw |-> FALSE,
             current |-> [canonicalItem |-> currentResult.canonicalItem,
                          operation |-> operation,
                          value |-> value,
                          confidence |-> currentResult.confidence,
                          needsConfirmation |-> NeedsConfirmation(currentResult.confidence),
                          topChoices |-> <<currentResult.canonicalItem, UNMAPPED, UNMAPPED>>,
                          shouldAutoSave |-> FALSE,
                          aliasToSave |-> Null],
             new |-> [canonicalItem |-> newResult.canonicalItem,
                      operation |-> operation,
                      value |-> value,
                      confidence |-> newResult.confidence,
                      matchType |-> newResult.matchType,
                      needsConfirmation |-> NeedsConfirmation(newResult.confidence),
                      topChoices |-> newResult.topChoices,
                      shouldAutoSave |-> ShouldAutoSave(newResult),
                      aliasToSave |-> IF ShouldAutoSave(newResult)
                                      THEN Trim(ToLowerCase(transcript)) ELSE Null]]

(***************************************************************************)
(* compareGoogleSttVersions: operation and value of the primary transcript *)
(* and of the first two alternatives.                                      *)
(***************************************************************************)
\* a || b on strings: undefined and '' are falsy
OrElse(a, b) == IF a = Null \/ a = <<>> THEN b ELSE a

\* alternatives[i]: undefined past the end of the array
ElementAt(arr, i) == IF i <= Len(arr) THEN arr[i] ELSE Null

SttVersion(transcript, targetItem, label) ==
    [transcript |-> transcript, canonicalItem |-> targetItem,
     operation |-> parseOperation(transcript),
     value |-> ValueFor(parseOperation(transcript), transcript),
     label |-> label]

compareGoogleSttVersions(primaryTranscript, alternatives, targetItem) ==
    LET version1 == OrElse(primaryTranscript, <<>>)
        version2 == OrElse(ElementAt(alternatives, 1), OrElse(primaryTranscript, <<>>))
        version3 == OrElse(ElementAt(alternatives, 2),
                           OrElse(ElementAt(alternatives, 1), OrElse(primaryTranscript, <<>>)))
    IN [kind |-> "stt",
        googleSttVersion1 |-> SttVersion(version1, targetItem, "Primary"),
        googleSttVersion2 |-> SttVersion(version2, targetItem, "Alternative 1"),
        googleSttVersion3 |-> SttVersion(version3, targetItem, "Alternative 2"),
        trainingItem |-> targetItem,
        allVersionsSame |-> (version1 = version2 /\ version2 = version3)]

(***************************************************************************)
(* POST /live-count/parse-command: validation of the model's JSON answer.  *)
(* llm.outcome is "throws" (the API call fails), "notjson" (JSON.parse     *)
(* fails) or "json" with llm.parsed the parsed object.  A response that    *)
(* has no success field (the 400 answers) is recorded with success FALSE.  *)
(***************************************************************************)
ParseResponse(status, success, error) ==
    [kind |-> "parse", status |-> status, success |-> success, error |-> error,
     needsConfirmation |-> FALSE, item |-> Null, operation |-> "null", quantity |-> NullValue,
     topChoices |-> Null, hasAliasToSave |-> FALSE, aliasToSave |-> Null]

\* masterList.find(item => item.toLowerCase().trim() === parsed.canonicalItem.toLowerCase().trim())
FindMasterItem(masterList, canonicalItem) ==
    LET hit(i) == Trim(ToLowerCase(masterList[i])) = Trim(ToLowerCase(canonicalItem))
    IN IF \E i \in 1..Len(masterList) : hit(i)
       THEN masterList[CHOOSE i \in 1..Len(masterList) : hit(i) /\ \A k \in 1..(i-1) : ~hit(k)]
       ELSE Null

\* the find callback throws a TypeError when it runs on a canonicalItem that is no string
FindThrows(masterList, canonicalItem) == ~IsStr(canonicalItem) /\ masterList # <<>>

parseCommand(transcript, masterList, llm) ==
    LET parsed == llm.parsed
        matchedItem == FindMasterItem(masterList, parsed.canonicalItem)
    IN IF transcript = Null \/ transcript = <<>> THEN ParseResponse(400, FALSE, "Transcript required")
       ELSE IF masterList = Null THEN ParseResponse(400, FALSE, "Master list required")
       ELSE IF llm.outcome = "throws" THEN ParseResponse(500, FALSE, "error.message")
       ELSE IF llm.outcome = "notjson" THEN ParseResponse(200, FALSE, "Could not parse voice command")
       ELSE IF parsed.topChoices = Null \/ Len(parsed.topChoices) # 3
       THEN ParseResponse(200, FALSE, "Invalid response format from resolution engine")
       ELSE IF parsed.canonicalItem = UNMAPPED \/ parsed.decisionState = "UNMAPPED"
       THEN [ParseResponse(200, FALSE, "Could not identify item from master list")
                EXCEPT !.topChoices = parsed.topChoices]
       ELSE IF parsed.decisionState = "NEEDS_CONFIRMATION"
       THEN IF FindThrows(masterList, parsed.canonicalItem)
            THEN ParseResponse(500, FALSE, "error.message")
            ELSE [ParseResponse(200, TRUE, "")
                    EXCEPT !.needsConfirmation = TRUE,
                           !.item = OrElse(matchedItem, parsed.canonicalItem),
                           !.operation = parsed.operation,
                           !.quantity = parsed.value,
                           !.topChoices = parsed.topChoices,
                           !.hasAliasToSave = TRUE,
                           !.aliasToSave = Null]
       ELSE IF parsed.decisionState = "AUTO_COMMIT"
       THEN IF FindThrows(masterList, parsed.canonicalItem)
            THEN ParseResponse(500, FALSE, "error.message")
            ELSE IF matchedItem = Null \/ matchedItem = <<>>
            THEN ParseResponse(200, FALSE, "Invalid item returned (not in master list)")
            ELSE [ParseResponse(200, TRUE, "")
                    EXCEPT !.item = matchedItem,
                           !.operation = parsed.operation,
                           !.quantity = parsed.value,
                           !.topChoices = parsed.topChoices,
                           !.hasAliasToSave = TRUE,
                           !.aliasToSave = parsed.aliasToSave]
       ELSE ParseResponse(200, FALSE, "Invalid decision state from resolution engine")

(***************************************************************************)
(* The requests of the model: transcripts, alternatives, master lists and  *)
(* alias dictionaries the resolver is called with, and the answers of the  *)
(* language model the parse-command handler has to validate.               *)
(***************************************************************************)
sChicken == <<"c","h","i","c","k","e","n">>

sEraseChicken == <<"e","r","a","s","e"," ","c","h","i","c","k","e","n">>

sChiken == <<"c","h","i","k","e","n">>

sRibs == <<"r","i","b","s">>

sRibsPadded == <<" ","R","i","b","s"," ">>

sCrab == <<"c","r","a","b">>

sCrabs == <<"c","r","a","b","s">>

sRebsAtTwelve == <<"r","e","b","s"," ","a","t"," ","t","w","e","l","v","e">>

sRebs == <<"r","e","b","s">>

sAdd5Shrimp == <<"a","d","d"," ","5"," ","s","h","r","i","m","p">>

sShrimp == <<"s","h","r","i","m","p">>

sSetRibsAt12 == <<"s","e","t"," ","r","i","b","s"," ","a","t"," ","1","2">>

sBananaSeventeen == <<"b","a","n","a","n","a"," ","s","e","v","e","n","t","e","e","n">>

sEmpty == <<>>

sBanan == <<"b","a","n","a","n">>

sCrbs == <<"c","r","b","s">>

sEraseShrimpSkew == <<"e","r","a","s","e"," ","s","h","r","i","m","p"," ","s","k","e","w">>

BANANA == <<"B","A","N","A","N","A">>

CHICKEN == <<"C","H","I","C","K","E","N">>

RIBS == <<"R","I","B","S">>

CRABS == <<"C","R","A","B","S">>

SHRIMP_SKEWER == <<"S","H","R","I","M","P"," ","S","K","E","W","E","R">>

BEEF == <<"B","E","E","F">>

Transcripts ==
    {sChicken, sEraseChicken, sChiken, sRibs, sRibsPadded, sCrab, sRebsAtTwelve,
     sAdd5Shrimp, sSetRibsAt12, sBananaSeventeen, sEmpty, sCrbs, sEraseShrimpSkew}

AlternativePool == {sChicken, sCrabs, sCrab, sShrimp, sBanan}

MasterLists == {<<CHICKEN>>, <<RIBS, CRABS>>, <<SHRIMP_SKEWER, BANANA, CHICKEN>>, <<CHICKEN, BEEF>>}

AliasDictionaries ==
    {<<>>,
     <<[canonical |-> SHRIMP_SKEWER, aliases |-> <<sShrimp>>]>>,
     <<[canonical |-> RIBS, aliases |-> <<sRebs>>], [canonical |-> CRABS, aliases |-> <<sCrab>>]>>,
     <<[canonical |-> BEEF, aliases |-> <<sChicken>>]>>,
     <<[canonical |-> RIBS, aliases |-> <<NumberAlias, sRebs>>]>>}

\* sequences over S of length at most n
SeqsUpTo(S, n) == UNION {[1..k -> S] : k \in 0..n}

\* the most alternatives the speech endpoints pass on: .slice(1, 4)
EndpointAlternatives == 3

\* the alternatives of a request that carries as many as the endpoints pass on
FullAlternatives == [1..EndpointAlternatives -> {sCrab, sChicken, sBanan}]

CompareRequests ==
    [kind : {"compare"}, transcript : Transcripts,
     alternatives : SeqsUpTo(AlternativePool, MaxAlts) \cup FullAlternatives,
     masterList : MasterLists, aliasDictionary : AliasDictionaries]

LlmItems == {CHICKEN, sChicken, BEEF, UNMAPPED, sEmpty, Null}

LlmTopChoices == {Null, <<CHICKEN, UNMAPPED>>, <<CHICKEN, UNMAPPED, UNMAPPED>>, <<CHICKEN, BEEF, UNMAPPED>>}

LlmParsed ==
    [canonicalItem : LlmItems, operation : {"ADD"}, value : {Num(5)},
     decisionState : {"AUTO_COMMIT", "NEEDS_CONFIRMATION", "UNMAPPED", "OTHER"},
     topChoices : LlmTopChoices, aliasToSave : {Null, sChiken}]

NoParsed ==
    [canonicalItem : {Null}, operation : {"null"}, value : {NullValue},
     decisionState : {"OTHER"}, topChoices : {Null}, aliasToSave : {Null}]

LlmAnswers ==
    [outcome : {"json"}, parsed : LlmParsed] \cup [outcome : {"throws", "notjson"}, parsed : NoParsed]

ParseRequests ==
    [kind : {"parse"}, transcript : {sChicken, sEmpty},
     masterList : {Null, <<>>, <<CHICKEN>>, <<RIBS, CRABS>>}, llm : LlmAnswers]

\* the words the generated transcripts are made of
wErase == <<"e","r","a","s","e">>

wCleared == <<"c","l","e","a","r","e","d">>

wAdd == <<"a","d","d">>

wMinus == <<"m","i","n","u","s">>

wAt == <<"a","t">>

w5 == <<"5">>

w5x == <<"5","x">>

wTwelve == <<"t","w","e","l","v","e">>

wRibs == <<"r","i","b","s">>

wConstructor == <<"c","o","n","s","t","r","u","c","t","o","r">>

Words == {wErase, wCleared, wAdd, wMinus, wAt, w5, w5x, wTwelve, wRibs, wConstructor}

\* the words of a sequence joined by single spaces
RECURSIVE JoinWords(_)
JoinWords(ws) ==
    IF ws = <<>> THEN <<>>
    ELSE IF Len(ws) = 1 THEN ws[1]
    ELSE ws[1] \o <<" ">> \o JoinWords(Tail(ws))

Texts == {JoinWords(ws) : ws \in SeqsUpTo(Words, MaxWords)}

SttAlternativePool == {sEmpty, sAdd5Shrimp}

SttRequests ==
    [kind : {"stt"}, transcript : Texts, alternatives : SeqsUpTo(SttAlternativePool, MaxAlts),
     targetItem : {CHICKEN}]

\* the strings calculateSimilarity is applied to, in both orders
SimilarityChars == {"a", "b", "c"}

SimilarityStrings == SeqsUpTo(SimilarityChars, MaxStrLen)

SimilarityRequests == [kind : {"similarity"}, str1 : SimilarityStrings, str2 : SimilarityStrings]

NoRequest == [kind |-> "none"]

NoResponse == [kind |-> "none"]

(***************************************************************************)
(* POST /daily-count/process: the counts store of a project.               *)
(* counts[item] is project.counts[item]: a number, or undefined while the  *)
(* item was never counted.  countAnswer is the last response.              *)
(***************************************************************************)
Undefined == [t |-> "undefined", n |-> 0]

\* project.masterList of the active project
projectMasterList == <<CHICKEN, RIBS>>

\* krushProfile.aliases: { alias: canonicalName }, never written by the server
krushProfileAliases == {}

\* parsed.item, parsed.op, parsed.qty of the model's JSON answer
ParsedItems == {CHICKEN, RIBS, sChicken}

ParsedOps == {"ADD", "SUBTRACT", "SET", "ERASE"}

ParsedQtys == 1..MaxQty

\* the matching engine: the alias table first, then masterList.includes
Target(item) ==
    IF \E a \in krushProfileAliases : a[1] = item
    THEN (CHOOSE a \in krushProfileAliases : a[1] = item)[2]
    ELSE IF item \in Range(projectMasterList) THEN item
    ELSE Null

\* project.counts[target] || 0
CountOrZero(c) == IF c.t = "number" THEN c.n ELSE 0

\* the three if statements that apply the operation to project.counts[target]
ApplyOp(c, op, qty) ==
    IF op = "ADD" THEN Num(CountOrZero(c) + qty)
    ELSE IF op = "SUBTRACT" THEN Num(CountOrZero(c) - qty)
    ELSE IF op = "SET" THEN Num(qty)
    ELSE c

NoCountAnswer == [success |-> FALSE, unresolved |-> FALSE, item |-> Null, val |-> Undefined]

InitCounts ==
    /\ counts = [i \in Range(projectMasterList) |-> Undefined]
    /\ countAnswer = NoCountAnswer

(***************************************************************************)
(* cache.js: setCachedWithHash / getCachedWithValidation over the          *)
(* node-cache instance.  cache[k] is the entry cache.get(k) returns, or    *)
(* NoEntry; an entry leaves the cache by cache.del or when its TTL runs    *)
(* out.  got is the last call of getCachedWithValidation with its result.  *)
(* stored[k] records what the last setCachedWithHash(k, ...) stored and     *)
(* what has happened to it since.                                          *)
(***************************************************************************)
CacheKeys == {"k1", "k2"}

CacheData == {"d1", "d2"}

InventoryHashes == {"h1", "h2"}

\* cache.get(k) of a key that is not in the cache: undefined
NoEntry == [data |-> "none", inventoryHash |-> "none"]

NoGet == [key |-> "none", hash |-> "none", result |-> "none", expected |-> "none"]

\* the entry left under the key without cache.del on a hash mismatch
EntryAfterValidation_KeepStale(cacheEntry, currentInventoryHash) == cacheEntry

\* the entry left under the key by getCachedWithValidation: removed when its
\* inventoryHash differs from the current one
EntryAfterValidation(cacheEntry, currentInventoryHash) ==
    IF cacheEntry # NoEntry /\ cacheEntry.inventoryHash # currentInventoryHash
    THEN NoEntry
    ELSE cacheEntry

\* the value getCachedWithValidation returns
ValidatedData(cacheEntry, currentInventoryHash) ==
    IF cacheEntry = NoEntry THEN "null"
    ELSE IF cacheEntry.inventoryHash # currentInventoryHash THEN "null"
    ELSE cacheEntry.data

NeverStored == [data |-> "none", hash |-> "none", fate |-> "never"]

\* what a call with hash h must return for a key with the record r: the data
\* stored last, if stored with h and neither invalidated nor expired since
MustReturn(r, h) == IF r.fate = "live" /\ r.hash = h THEN r.data ELSE "null"

InitCache ==
    /\ cache = [k \in CacheKeys |-> NoEntry]
    /\ got = NoGet
    /\ stored = [k \in CacheKeys |-> NeverStored]

(***************************************************************************)
(* POST /projects/save-master-list.  projectDirs is the set of directories *)
(* under data/projects that hold a master_list.json, named as the handler  *)
(* names them; saveAnswer is the last request with the status it got.      *)
(***************************************************************************)
MaxNameLength == 100

Letters == {"a", "b", "c", "d", "e", "f", "g", "h", "i", "j", "k", "l", "m",
            "n", "o", "p", "q", "r", "s", "t", "u", "v", "w", "x", "y", "z",
            "A", "B", "C", "D", "E", "F", "G", "H", "I", "J", "K", "L", "M",
            "N", "O", "P", "Q", "R", "S", "T", "U", "V", "W", "X", "Y", "Z"}

\* the characters \s matches, of those the model writes
WhitespaceChars == {" ", "\t", "\n"}

\* the character class [a-zA-Z0-9_\-\s]
ValidPatternChars == Letters \cup Digits \cup {"_", "-"} \cup WhitespaceChars

\* any name that is a non-empty string passes
validateProjectName_AnyNonEmpty(name) == name # Null /\ Len(name) > 0

\* validateProjectName(name): a non-empty string of at most 100 characters
\* that /^[a-zA-Z0-9_\-\s]+$/ matches
validateProjectName(name) ==
    /\ name # Null
    /\ name # <<>>
    /\ \A i \in 1..Len(name) : name[i] \in ValidPatternChars
    /\ Len(name) > 0
    /\ Len(name) <= MaxNameLength

\* projectName.replace(/\s+/g, '_'): every run of whitespace becomes one "_"
ReplaceWhitespace(name) ==
    LET kept == {i \in 1..Len(name) :
                    ~(/\ name[i] \in WhitespaceChars
                      /\ i < Len(name)
                      /\ name[i + 1] \in WhitespaceChars)}
        nth(j) == CHOOSE i \in kept : Cardinality({k \in kept : k <= i}) = j
    IN  IF \A i \in 1..Len(name) : name[i] \notin WhitespaceChars
        THEN name
        ELSE [j \in 1..Cardinality(kept) |->
                 IF name[nth(j)] \in WhitespaceChars THEN "_" ELSE name[nth(j)]]

NameChars == {"a", "/", "."}

SingleChars == {"7", "-", " ", "\\"}

LongName(n) == [i \in 1..n |-> "a"] \o <<>>

\* the req.body.projectName of a request; Null is a missing or non-string name
ProjectNames ==
    {Null, <<>>, <<"a", " ">>, LongName(MaxNameLength), LongName(MaxNameLength + 1)}
    \cup {<<c>> : c \in NameChars \cup SingleChars}
    \cup {<<c, d>> : c \in NameChars, d \in NameChars}

\* the req.body.items of a request; Null is a value that is not an array
ItemLists == {Null, <<>>, <<"CHICKEN">>}

NoSave == [projectName |-> Null, items |-> Null, status |-> 0]

InitProjects ==
    /\ projectDirs = {}
    /\ saveAnswer = NoSave

(***************************************************************************)
(* data/projects/global_aliases.json.  globalAliases is the "aliases"      *)
(* object of the file: the alias list of each item, the empty list for an  *)
(* item without a key (and for every item while the file does not exist).  *)
(* lastSave is the last transcribe-mapping request and what its auto-save  *)
(* did; clientAliases[c] is the dictionary client c holds, fetched with    *)
(* GET /aliases and edited locally; autoSaved is the set of <<item,        *)
(* alias>> pairs the auto-save has written.                                *)
(***************************************************************************)
AliasItems == {CHICKEN, RIBS}

sCrabPadded == <<" ","C","r","a","b">>

sBlank == <<" "," ">>

\* req.body.targetItem || null
TargetItems == AliasItems \cup {Null}

\* the primary transcript of the recognition
GoogleTranscripts == {sCrabPadded, sRebs, sBlank, sEmpty}

\* the alternatives of the recognition; Null when there are none
GoogleAlternatives == {Null, <<>>, <<sCrab>>, <<sCrab, sRebs>>}

EmptyAliases == [item \in AliasItems |-> <<>>]

\* the empty lists and one dictionary with an entry that is not normalized
StoredAliases == {EmptyAliases, [EmptyAliases EXCEPT ![RIBS] = <<sCrabPadded>>]}

\* [googleTranscript, ...(googleAlternatives || [])].filter(t => t && t.trim())
AllTranscripts(googleTranscript, googleAlternatives) ==
    SelectSeq(<<googleTranscript>> \o (IF googleAlternatives = Null THEN <<>> ELSE googleAlternatives),
              LAMBDA t : t # <<>> /\ Trim(t) # <<>>)

\* allTranscripts.map(t => t.toLowerCase().trim())
NormalizedTranscripts(allTranscripts) ==
    [i \in 1..Len(allTranscripts) |-> Trim(ToLowerCase(allTranscripts[i]))]

\* the test of the forEach without includes: every transcript counts as new
IsNewAlias_Always(list, normalized) == TRUE

\* !existingAliases[targetItem].includes(normalized)
IsNewAlias(list, normalized) == normalized \notin Range(list)

\* normalizedTranscripts.forEach: push what the list does not include; the
\* list after the first n transcripts and the newly added ones
RECURSIVE AddAliases(_, _, _)
AddAliases(list, normalizedTranscripts, n) ==
    IF n = 0 THEN [list |-> list, newlyAddedAliases |-> <<>>]
    ELSE LET before == AddAliases(list, normalizedTranscripts, n - 1)
         IN IF IsNewAlias(before.list, normalizedTranscripts[n])
            THEN [list |-> Append(before.list, normalizedTranscripts[n]),
                  newlyAddedAliases |-> Append(before.newlyAddedAliases, normalizedTranscripts[n])]
            ELSE before

NoLastSave ==
    [targetItem |-> Null, googleTranscript |-> sEmpty, googleAlternatives |-> Null,
     newlyAddedAliases |-> <<>>, wrote |-> FALSE]

Clients == {"c1"}

\* a client that has not fetched the dictionary
NoCopy == [fetched |-> FALSE, aliases |-> EmptyAliases]

\* the alias a client adds locally
ClientAliases == {sCrabs}

\* the alias store before any request, holding the dictionary start
InitAliasesFrom(start) ==
    /\ globalAliases = start
    /\ lastSave = NoLastSave
    /\ clientAliases = [c \in Clients |-> NoCopy]
    /\ autoSaved = {}

InitAliases ==
    /\ globalAliases = EmptyAliases
    /\ lastSave = NoLastSave
    /\ clientAliases = [c \in Clients |-> NoCopy]
    /\ autoSaved = {}

InitStores == InitCounts /\ InitCache /\ InitProjects /\ InitAliases

(***************************************************************************)
(* RequestQueue and the transcription jobs submitted to speechQueue.       *)
(* A queue entry {fn, resolve, reject} is [fn |-> j, settle |-> j]: the    *)
(* job to call and the promise its resolve/reject belong to.  Jobs are     *)
(* numbered in the order of their add() calls.  A job is                   *)
(*   "new"      not submitted yet                                          *)
(*   "queued"   pushed by add(), fn not called yet                         *)
(*   "running"  fn awaits speechClient.recognize                           *)
(*   "backoff"  fn awaits the setTimeout of the retry backoff              *)
(*   "returned" fn has returned, "threw" fn has thrown.                    *)
(* current is the job process() awaits (0: none), outcome[j] the value fn  *)
(* returned or the error it threw, promise[j] the promise add() returned.  *)
(* submitOrder / startOrder record the order of the add() calls and of the *)
(* fn() calls.                                                             *)
(***************************************************************************)
Jobs == 1..NumJobs

maxRetries == 3

\* what speechClient.recognize answers: results with speech, no results at
\* all, or results whose transcript is blank
RecognizeResults == {"speech", "silence", "blank"}

\* the { transcript, alternatives } the job returns for an answer
SpeechResult(r) ==
    IF r = "speech" THEN [transcript |-> sEraseChicken, alternatives |-> <<sChicken>>]
    ELSE IF r = "blank" THEN [transcript |-> <<" ">>, alternatives |-> <<>>]
    ELSE [transcript |-> <<>>, alternatives |-> <<>>]

\* error codes of a failed recognize call
ErrorCodes == {"ECONNRESET", "14", "3"}

\* isNetworkError
isNetworkError(code) == code \in {"ECONNRESET", "ETIMEDOUT", "ENOTFOUND", "14", "4"}

Pending == [state |-> "pending", value |-> "none"]

\* the endpoint has not answered yet
NoAnswer == [status |-> 0, success |-> FALSE, error |-> "none", transcript |-> Null]

InitQueue ==
    /\ queue = <<>>
    /\ processing = FALSE
    /\ current = 0
    /\ jobState = [j \in Jobs |-> "new"]
    /\ retryCount = [j \in Jobs |-> 0]
    /\ attempts = [j \in Jobs |-> 0]
    /\ outcome = [j \in Jobs |-> "none"]
    /\ promise = [j \in Jobs |-> Pending]
    /\ settleCount = [j \in Jobs |-> 0]
    /\ submitOrder = <<>>
    /\ startOrder = <<>>
    /\ response = [j \in Jobs |-> NoAnswer]

\* process() without the check of the processing flag
ProcessReturnsEarly_NoFlag(isProcessing, q) == q = <<>>

\* process(): if (this.processing || this.queue.length === 0) return;
ProcessReturnsEarly(isProcessing, q) == isProcessing \/ q = <<>>

\* this.queue.pop() in place of shift(): the newest entry is taken
Shift_Pop(q) == [entry |-> q[Len(q)], rest |-> SubSeq(q, 1, Len(q) - 1)]

\* this.queue.shift(): the entry taken and the queue left
Shift(q) == [entry |-> Head(q), rest |-> Tail(q)]

\* resolve() on both paths: an error is delivered as a result
SettledPromise_AlwaysResolved(state, value) == [state |-> "resolved", value |-> value]

\* resolve(result) after fn returned, reject(error) after fn threw
SettledPromise(state, value) ==
    [state |-> IF state = "returned" THEN "resolved" ELSE "rejected", value |-> value]

\* the retry ceiling tested with > in place of >=
GivesUp_OffByOne(code, retries) == ~isNetworkError(code) \/ retries > maxRetries

\* the catch of the retry loop: if (!isNetworkError || retryCount >= maxRetries) throw
GivesUp(code, retries) == ~isNetworkError(code) \/ retries >= maxRetries

\* an empty transcript answered through the catch block
EndpointResponse_EmptyIsFailure(p) ==
    IF p.state = "rejected" \/ Trim(SpeechResult(p.value).transcript) = <<>>
    THEN [status |-> 500, success |-> FALSE, error |-> p.value, transcript |-> Null]
    ELSE [status |-> 200, success |-> TRUE, error |-> "none",
          transcript |-> SpeechResult(p.value).transcript]

\* the answer of POST /audio/transcribe-live-count once await speechQueue.add
\* settles: the catch block after a rejection, 'No speech detected' for an
\* empty or blank transcript, the transcript otherwise
EndpointResponse(p) ==
    IF p.state = "rejected"
    THEN [status |-> 500, success |-> FALSE, error |-> p.value, transcript |-> Null]
    ELSE IF SpeechResult(p.value).transcript = <<>> \/ Trim(SpeechResult(p.value).transcript) = <<>>
    THEN [status |-> 200, success |-> FALSE, error |-> "No speech detected", transcript |-> <<>>]
    ELSE [status |-> 200, success |-> TRUE, error |-> "none",
          transcript |-> SpeechResult(p.value).transcript]

\* process() that takes no further entry once a job has thrown
ProcessFrom_StallsAfterThrow(isProcessing, q, state, att, order) ==
    IF ProcessReturnsEarly(isProcessing, q) \/ \E j \in Jobs : state[j] = "threw"
    THEN /\ processing' = isProcessing
         /\ queue' = q
         /\ current' = IF isProcessing THEN current ELSE 0
         /\ jobState' = state
         /\ attempts' = att
         /\ startOrder' = order
    ELSE LET entry == Shift(q).entry
         IN /\ processing' = TRUE
            /\ queue' = Shift(q).rest
            /\ current' = entry.settle
            /\ jobState' = [state EXCEPT ![entry.fn] = "running"]
            /\ attempts' = [att EXCEPT ![entry.fn] = 1]
            /\ startOrder' = Append(order, entry.fn)

\* the synchronous part of process() on queue q: up to the await of fn()
ProcessFrom(isProcessing, q, state, att, order) ==
    IF ProcessReturnsEarly(isProcessing, q)
    THEN /\ processing' = isProcessing
         /\ queue' = q
         /\ current' = IF isProcessing THEN current ELSE 0
         /\ jobState' = state
         /\ attempts' = att
         /\ startOrder' = order
    ELSE LET entry == Shift(q).entry
         IN /\ processing' = TRUE
            /\ queue' = Shift(q).rest
            /\ current' = entry.settle
            /\ jobState' = [state EXCEPT ![entry.fn] = "running"]
            /\ attempts' = [att EXCEPT ![entry.fn] = 1]
            /\ startOrder' = Append(order, entry.fn)

\* add(fn): push the entry, then process().  The jobs are numbered in the
\* order of their add() calls.
Add(j) ==
    /\ jobState[j] = "new"
    /\ \A k \in 1..(j-1) : jobState[k] # "new"
    /\ submitOrder' = Append(submitOrder, j)
    /\ ProcessFrom(processing, Append(queue, [fn |-> j, settle |-> j]),
                   [jobState EXCEPT ![j] = "queued"], attempts, startOrder)
    /\ UNCHANGED <<req, resp, retryCount, outcome, promise, settleCount, response, storeVars>>

\* speechClient.recognize answers: the job returns its transcript (or the
\* empty transcript when there are no results)
RecognizeReturns(j) ==
    /\ jobState[j] = "running"
    /\ \E r \in RecognizeResults : outcome' = [outcome EXCEPT ![j] = r]
    /\ jobState' = [jobState EXCEPT ![j] = "returned"]
    /\ UNCHANGED <<req, resp, queue, processing, current, retryCount, attempts, promise, settleCount, submitOrder, startOrder, response, storeVars>>

\* speechClient.recognize throws: rethrow, or count the retry and back off
RecognizeFails(j) ==
    /\ jobState[j] = "running"
    /\ \E code \in ErrorCodes :
          IF GivesUp(code, retryCount[j])
          THEN /\ jobState' = [jobState EXCEPT ![j] = "threw"]
               /\ outcome' = [outcome EXCEPT ![j] = code]
               /\ UNCHANGED retryCount
          ELSE /\ jobState' = [jobState EXCEPT ![j] = "backoff"]
               /\ retryCount' = [retryCount EXCEPT ![j] = retryCount[j] + 1]
               /\ UNCHANGED outcome
    /\ UNCHANGED <<req, resp, queue, processing, current, attempts, promise, settleCount, submitOrder, startOrder, response, storeVars>>

\* the backoff timer fires: while (retryCount <= maxRetries) runs the next attempt
BackoffElapsed(j) ==
    /\ jobState[j] = "backoff"
    /\ IF retryCount[j] <= maxRetries
       THEN /\ jobState' = [jobState EXCEPT ![j] = "running"]
            /\ attempts' = [attempts EXCEPT ![j] = attempts[j] + 1]
            /\ UNCHANGED outcome
       ELSE /\ jobState' = [jobState EXCEPT ![j] = "returned"]
            /\ outcome' = [outcome EXCEPT ![j] = "silence"]
            /\ UNCHANGED attempts
    /\ UNCHANGED <<req, resp, queue, processing, current, retryCount, promise, settleCount, submitOrder, startOrder, response, storeVars>>

\* process() resumes after await fn(): resolve or reject, then the finally
\* block (processing = false; this.process()); the handler awaiting the
\* promise answers its request
ProcessResumes ==
    /\ current # 0
    /\ jobState[current] \in {"returned", "threw"}
    /\ promise' = [promise EXCEPT ![current] =
                      IF promise[current].state = "pending"
                      THEN SettledPromise(jobState[current], outcome[current])
                      ELSE promise[current]]
    /\ settleCount' = [settleCount EXCEPT ![current] = settleCount[current] + 1]
    /\ response' = [response EXCEPT ![current] = EndpointResponse(promise'[current])]
    /\ ProcessFrom(FALSE, queue, jobState, attempts, startOrder)
    /\ UNCHANGED <<req, resp, retryCount, outcome, submitOrder, storeVars>>

InitQueueOnly ==
    /\ req = NoRequest
    /\ resp = NoResponse
    /\ InitQueue
    /\ InitStores

NextQueue ==
    \/ \E j \in Jobs : Add(j)
    \/ \E j \in Jobs : RecognizeReturns(j)
    \/ \E j \in Jobs : RecognizeFails(j)
    \/ \E j \in Jobs : BackoffElapsed(j)
    \/ ProcessResumes

SpecQueue == InitQueueOnly /\ [][NextQueue]_vars

\* every awaited call answers and every timer fires; submissions are free
FairSpecQueue ==
    /\ SpecQueue
    /\ \A j \in Jobs : WF_vars(RecognizeReturns(j) \/ RecognizeFails(j))
    /\ \A j \in Jobs : WF_vars(BackoffElapsed(j))
    /\ WF_vars(ProcessResumes)

(***************************************************************************)
(* The resolution engine: one request, one response.                       *)
(***************************************************************************)
InitEngine ==
    /\ req \in CompareRequests \cup ParseRequests \cup SttRequests \cup SimilarityRequests
    /\ resp = NoResponse
    /\ InitQueue
    /\ InitStores

CompareProtocols ==
    /\ req.kind = "compare"
    /\ resp.kind = "none"
    /\ resp' = compareProtocols(req.transcript, req.alternatives, req.masterList, req.aliasDictionary)
    /\ UNCHANGED <<req, queueVars, storeVars>>

ParseCommand ==
    /\ req.kind = "parse"
    /\ resp.kind = "none"
    /\ resp' = parseCommand(req.transcript, req.masterList, req.llm)
    /\ UNCHANGED <<req, queueVars, storeVars>>

CompareGoogleSttVersions ==
    /\ req.kind = "stt"
    /\ resp.kind = "none"
    /\ resp' = compareGoogleSttVersions(req.transcript, req.alternatives, req.targetItem)
    /\ UNCHANGED <<req, queueVars, storeVars>>

\* calculateSimilarity on a pair of strings, in both argument orders and on
\* the first string with itself
CalculateSimilarity ==
    /\ req.kind = "similarity"
    /\ resp.kind = "none"
    /\ resp' = [kind |-> "similarity",
                forward |-> calculateSimilarity(req.str1, req.str2),
                backward |-> calculateSimilarity(req.str2, req.str1),
                self |-> calculateSimilarity(req.str1, req.str1)]
    /\ UNCHANGED <<req, queueVars, storeVars>>

NextEngine == CompareProtocols \/ ParseCommand \/ CompareGoogleSttVersions \/ CalculateSimilarity

SpecEngine == InitEngine /\ [][NextEngine]_vars

(***************************************************************************)
(* The counts store: committed commands applied one after the other.       *)
(***************************************************************************)
\* one request, from the matching engine on: apply the command to the target
\* and answer, or answer unresolved.  Counts are kept within MaxCount.
DailyCountProcess(item, op, qty) ==
    /\ IF Target(item) # Null
       THEN /\ counts' = [counts EXCEPT ![Target(item)] = ApplyOp(counts[Target(item)], op, qty)]
            /\ countAnswer' = [success |-> TRUE, unresolved |-> FALSE, item |-> Target(item),
                               val |-> counts'[Target(item)]]
            /\ CountOrZero(counts'[Target(item)]) \in (0 - MaxCount)..MaxCount
       ELSE /\ countAnswer' = [success |-> FALSE, unresolved |-> TRUE, item |-> Null, val |-> Undefined]
            /\ UNCHANGED counts
    /\ UNCHANGED <<req, resp, queueVars, cacheVars, projectVars, aliasVars>>

InitCountsOnly ==
    /\ req = NoRequest
    /\ resp = NoResponse
    /\ InitQueue
    /\ InitStores

NextCounts == \E item \in ParsedItems, op \in ParsedOps, qty \in ParsedQtys : DailyCountProcess(item, op, qty)

SpecCounts == InitCountsOnly /\ [][NextCounts]_vars

(***************************************************************************)
(* The inventory-hash cache.                                               *)
(***************************************************************************)
\* setCachedWithHash(cacheKey, resultData, inventoryHash, ttl)
SetCachedWithHash(k, d, h) ==
    /\ cache' = [cache EXCEPT ![k] = [data |-> d, inventoryHash |-> h]]
    /\ stored' = [stored EXCEPT ![k] = [data |-> d, hash |-> h, fate |-> "live"]]
    /\ UNCHANGED <<req, resp, queueVars, countsVars, projectVars, aliasVars, got>>

\* getCachedWithValidation(cacheKey, currentInventoryHash)
GetCachedWithValidation(k, h) ==
    /\ got' = [key |-> k, hash |-> h, result |-> ValidatedData(cache[k], h),
               expected |-> MustReturn(stored[k], h)]
    /\ cache' = [cache EXCEPT ![k] = EntryAfterValidation(cache[k], h)]
    /\ stored' = [stored EXCEPT ![k] =
                     IF stored[k].fate = "live" /\ stored[k].hash # h
                     THEN [stored[k] EXCEPT !.fate = "invalidated"]
                     ELSE stored[k]]
    /\ UNCHANGED <<req, resp, queueVars, countsVars, projectVars, aliasVars>>

\* the TTL of the entry runs out: node-cache drops it
Expire(k) ==
    /\ cache[k] # NoEntry
    /\ cache' = [cache EXCEPT ![k] = NoEntry]
    /\ stored' = [stored EXCEPT ![k] = [stored[k] EXCEPT !.fate = "expired"]]
    /\ UNCHANGED <<req, resp, queueVars, countsVars, projectVars, aliasVars, got>>

InitCacheOnly ==
    /\ req = NoRequest
    /\ resp = NoResponse
    /\ InitQueue
    /\ InitStores

NextCache ==
    \/ \E k \in CacheKeys, d \in CacheData, h \in InventoryHashes : SetCachedWithHash(k, d, h)
    \/ \E k \in CacheKeys, h \in InventoryHashes : GetCachedWithValidation(k, h)
    \/ \E k \in CacheKeys : Expire(k)

SpecCache == InitCacheOnly /\ [][NextCache]_vars

(***************************************************************************)
(* Saving a master list.                                                   *)
(***************************************************************************)
\* app.post('/projects/save-master-list'): 400 for an invalid name, 400 for
\* items that are not a non-empty array, else the directory is made and
\* master_list.json written into it
SaveMasterList(projectName, items) ==
    /\ IF ~validateProjectName(projectName)
       THEN /\ saveAnswer' = [projectName |-> projectName, items |-> items, status |-> 400]
            /\ UNCHANGED projectDirs
       ELSE IF items = Null \/ Len(items) = 0
       THEN /\ saveAnswer' = [projectName |-> projectName, items |-> items, status |-> 400]
            /\ UNCHANGED projectDirs
       ELSE /\ projectDirs' = projectDirs \cup {ReplaceWhitespace(projectName)}
            /\ saveAnswer' = [projectName |-> projectName, items |-> items, status |-> 200]
    /\ UNCHANGED <<req, resp, queueVars, countsVars, cacheVars, aliasVars>>

InitProjectsOnly ==
    /\ req = NoRequest
    /\ resp = NoResponse
    /\ InitQueue
    /\ InitStores

NextProjects ==
    \E projectName \in ProjectNames, items \in ItemLists : SaveMasterList(projectName, items)

SpecProjects == InitProjectsOnly /\ [][NextProjects]_vars

(***************************************************************************)
(* The global alias store.                                                 *)
(***************************************************************************)
\* POST /audio/transcribe-mapping, the auto-save of the recognised
\* transcripts as aliases of targetItem: read the file, push what is new,
\* write the file back if anything was pushed.  Reading and writing are
\* synchronous, so the auto-save is one step.
TranscribeMapping(targetItem, googleTranscript, googleAlternatives) ==
    /\ IF targetItem # Null /\ googleTranscript # <<>>
       THEN LET normalizedTranscripts ==
                    NormalizedTranscripts(AllTranscripts(googleTranscript, googleAlternatives))
                added == AddAliases(globalAliases[targetItem], normalizedTranscripts,
                                    Len(normalizedTranscripts))
            IN /\ globalAliases' =
                     IF Len(added.newlyAddedAliases) > 0
                     THEN [globalAliases EXCEPT ![targetItem] = added.list]
                     ELSE globalAliases
               /\ lastSave' = [targetItem |-> targetItem, googleTranscript |-> googleTranscript,
                               googleAlternatives |-> googleAlternatives,
                               newlyAddedAliases |-> added.newlyAddedAliases,
                               wrote |-> Len(added.newlyAddedAliases) > 0]
               /\ autoSaved' = autoSaved \cup
                     {<<targetItem, a>> : a \in Range(added.newlyAddedAliases)}
       ELSE /\ lastSave' = [targetItem |-> targetItem, googleTranscript |-> googleTranscript,
                            googleAlternatives |-> googleAlternatives,
                            newlyAddedAliases |-> <<>>, wrote |-> FALSE]
            /\ UNCHANGED <<globalAliases, autoSaved>>
    /\ UNCHANGED <<req, resp, queueVars, countsVars, cacheVars, projectVars, clientAliases>>

InitAliasesOnly ==
    /\ req = NoRequest
    /\ resp = NoResponse
    /\ InitQueue
    /\ InitCounts
    /\ InitCache
    /\ InitProjects
    /\ \E start \in StoredAliases : InitAliasesFrom(start)

NextAliasStore ==
    \E targetItem \in TargetItems, googleTranscript \in GoogleTranscripts,
       googleAlternatives \in GoogleAlternatives :
        TranscribeMapping(targetItem, googleTranscript, googleAlternatives)

SpecAliasStore == InitAliasesOnly /\ [][NextAliasStore]_vars

\* GET /aliases: the client receives the aliases object of the file, or {}
\* while there is no file
GetAliases(c) ==
    /\ clientAliases' = [clientAliases EXCEPT ![c] = [fetched |-> TRUE, aliases |-> globalAliases]]
    /\ UNCHANGED <<req, resp, queueVars, countsVars, cacheVars, projectVars,
                   globalAliases, lastSave, autoSaved>>

\* the bodies client c may send: the dictionary it fetched with one alias
\* added to one item, or a body without an aliases object
PostedBodies(c) ==
    {[hasAliases |-> FALSE, aliases |-> EmptyAliases]} \cup
    {[hasAliases |-> TRUE,
      aliases |-> [clientAliases[c].aliases EXCEPT
                      ![item] = Append(clientAliases[c].aliases[item], alias)]] :
        item \in {i \in AliasItems : clientAliases[c].fetched},
        alias \in {a \in ClientAliases :
                      \A i \in AliasItems : a \notin Range(clientAliases[c].aliases[i])}}

\* POST /aliases: 400 without an aliases object, else the file is written
\* with the dictionary of the request in place of what it held
PostAliases(c, body) ==
    /\ IF ~body.hasAliases
       THEN UNCHANGED <<globalAliases, clientAliases>>
       ELSE /\ globalAliases' = body.aliases
            /\ clientAliases' = [clientAliases EXCEPT ![c] = [fetched |-> TRUE, aliases |-> body.aliases]]
    /\ UNCHANGED <<req, resp, queueVars, countsVars, cacheVars, projectVars, lastSave, autoSaved>>

NextAliasClients ==
    \/ \E targetItem \in TargetItems, googleAlternatives \in {Null, <<sCrab>>} :
           TranscribeMapping(targetItem, sCrabPadded, googleAlternatives)
    \/ \E c \in Clients : GetAliases(c)
    \/ \E c \in Clients : \E body \in PostedBodies(c) : PostAliases(c, body)

SpecAliasClients == InitAliasesOnly /\ [][NextAliasClients]_vars

(***************************************************************************)
(* Properties of the resolution engine (SpecEngine).                       *)
(***************************************************************************)
Compared == resp.kind = "compare" /\ ~resp.threw

\* the distinct items the transcript variants of the request resolve to
Candidates ==
    LET variants == <<req.transcript>> \o req.alternatives
        results == [i \in 1..Len(variants) |-> ResolveVariant(variants[i], req.masterList, req.aliasDictionary)]
    IN {results[i].canonicalItem : i \in {k \in 1..Len(variants) : results[k].source # "none"}}

\* the transcript contains a word of one of the four operation vocabularies
HasOperationWord(transcript) ==
    \E w \in EraseWords \cup AddWords \cup SubtractWords \cup SetWords : HasWord(ToLowerCase(transcript), w)

\* the item is a member of the master list, compared lower-cased and trimmed
InMasterList(item, masterList) ==
    \E i \in 1..Len(masterList) : Trim(ToLowerCase(masterList[i])) = Trim(ToLowerCase(item))

\* C1: the canonicalItem resolveNewProtocol returns is a member of the
\* caller's master list or the sentinel 'UNMAPPED', also when it is reached
\* through an alias whose dictionary key is not in the master list.
C1_CanonicalItemInMasterList ==
    Compared => resp.new.canonicalItem \in Range(req.masterList) \cup {UNMAPPED}

\* C2: every parse-command response with success: true names an item that is
\* (lower-cased, trimmed) a member of the request's masterList, on the
\* NEEDS_CONFIRMATION path as on the AUTO_COMMIT path.
C2_SuccessItemInMasterList ==
    (resp.kind = "parse" /\ resp.success) => InMasterList(resp.item, req.masterList)

\* C3: a decision that is not AUTO_COMMIT carries no alias: the new-protocol
\* result never has a non-null aliasToSave together with needsConfirmation
\* or canonicalItem 'UNMAPPED', and the parse-command response has a null
\* aliasToSave whenever the decision is not AUTO_COMMIT.
C3_NoAliasWithoutAutoCommit ==
    /\ Compared =>
          ((resp.new.needsConfirmation \/ resp.new.canonicalItem = UNMAPPED) => resp.new.aliasToSave = Null)
    /\ (resp.kind = "parse" /\ req.llm.outcome = "json") =>
          ((req.llm.parsed.decisionState # "AUTO_COMMIT" \/ req.llm.parsed.canonicalItem = UNMAPPED)
              => resp.aliasToSave = Null)

\* C3 witness: a fuzzy match below 0.85 on a real item: confirmation is
\* needed and no alias is recommended
C3_Witness ==
    /\ Compared
    /\ resp.new.needsConfirmation
    /\ resp.new.canonicalItem # UNMAPPED
    /\ resp.new.aliasToSave = Null

\* C4: whenever the variants yield more than one distinct candidate item the
\* decision needs confirmation, whatever the confidence of the best one.
C4_AmbiguityNeedsConfirmation ==
    (Compared /\ Cardinality(Candidates) > 1) => resp.new.needsConfirmation

\* C5: with exactly one candidate, a transcript without operation word, or
\* without a number while the operation is not ERASE, needs confirmation.
C5_UnclearCommandNeedsConfirmation ==
    (/\ Compared
     /\ Cardinality(Candidates) = 1
     /\ \/ ~HasOperationWord(req.transcript)
        \/ (resp.new.value = NullValue /\ resp.new.operation # "ERASE"))
    => resp.new.needsConfirmation

\* C6: topChoices has exactly 3 entries, each a member of the caller's
\* master list or 'UNMAPPED'.
C6_TopChoicesFromMasterList ==
    /\ Compared =>
          /\ Len(resp.new.topChoices) = 3
          /\ Range(resp.new.topChoices) \subseteq Range(req.masterList) \cup {UNMAPPED}
    /\ (resp.kind = "parse" /\ resp.success) =>
          /\ Len(resp.topChoices) = 3
          /\ Range(resp.topChoices) \subseteq Range(req.masterList) \cup {UNMAPPED}

(***************************************************************************)
(* Properties of the speech queue (SpecQueue, FairSpecQueue).              *)
(***************************************************************************)
InProgress(j) == jobState[j] \in {"running", "backoff"}

Finished(j) == jobState[j] \in {"returned", "threw"}

\* C7: at most one job submitted to the speech queue is in progress at any
\* time, a job waiting in its retry backoff included.
C7_AtMostOneInProgress == Cardinality({j \in Jobs : InProgress(j)}) <= 1

\* C7 witness: a job waits in its backoff while another submission is queued
C7_Witness == \E j, k \in Jobs : jobState[j] = "backoff" /\ jobState[k] = "queued"

\* C8: jobs are started in the order of their submission: the sequence of
\* started jobs is a prefix of the sequence of submitted jobs.
C8_StartedInSubmissionOrder ==
    /\ Len(startOrder) <= Len(submitOrder)
    /\ startOrder = SubSeq(submitOrder, 1, Len(startOrder))

\* C8 witness: a second job was started while a later submission still waits
C8_Witness == Len(startOrder) >= 2 /\ Len(queue) >= 1 /\ InProgress(startOrder[2])

\* C9: the promise of add(fn) is settled exactly once, only after that fn
\* has finished, resolved with the value fn returned or rejected with the
\* error fn threw.
C9_PromiseSettledWithOwnOutcome ==
    \A j \in Jobs :
        /\ settleCount[j] <= 1
        /\ (settleCount[j] = 1) = (promise[j].state # "pending")
        /\ promise[j].state # "pending" =>
              /\ Finished(j)
              /\ promise[j].value = outcome[j]
              /\ (promise[j].state = "resolved") = (jobState[j] = "returned")
        /\ (Finished(j) /\ current # j) => promise[j].state # "pending"

\* C9 witness: one submission was resolved and another one rejected
C9_Witness == \E j, k \in Jobs : promise[j].state = "resolved" /\ promise[k].state = "rejected"

\* C10: a job whose speech call keeps failing with transient errors makes at
\* most maxRetries retries after its first attempt; at the ceiling the error
\* is thrown, a job that threw makes no further attempt, and every started
\* job finishes.
C10_RetryCeiling ==
    /\ [](\A j \in Jobs : retryCount[j] <= maxRetries /\ attempts[j] <= maxRetries + 1)
    /\ [][\A j \in Jobs : jobState[j] = "threw" => (jobState'[j] = "threw" /\ attempts'[j] = attempts[j])]_vars
    /\ [][\A j \in Jobs : (jobState[j] = "running" /\ retryCount[j] = maxRetries /\ jobState'[j] # "running")
                              => Finished(j)']_vars
    /\ \A j \in Jobs : (jobState[j] = "running") ~> Finished(j)

\* C10 witness: a job threw a transient error after its last permitted attempt
C10_Witness ==
    \E j \in Jobs : jobState[j] = "threw" /\ isNetworkError(outcome[j]) /\ attempts[j] = maxRetries + 1

\* C11: a speech call with no recognition results ends the job at once with
\* the empty transcript and no alternatives, is never retried, and is
\* answered with 'No speech detected' (HTTP 200); the failure answer (HTTP
\* 500) is given exactly for a job that threw, which is a non-transient
\* error or a transient one at the retry ceiling.
C11_NoSpeechIsNotFailure ==
    /\ [](\A j \in Jobs :
            /\ outcome[j] = "silence" =>
                  /\ jobState[j] = "returned"
                  /\ SpeechResult(outcome[j]) = [transcript |-> <<>>, alternatives |-> <<>>]
                  /\ response[j].status \in {0, 200}
                  /\ response[j].status = 200 =>
                        (~response[j].success /\ response[j].error = "No speech detected")
            /\ (response[j].status = 500) = (promise[j].state = "rejected")
            /\ response[j].status = 500 =>
                  /\ jobState[j] = "threw"
                  /\ outcome[j] \in ErrorCodes
                  /\ response[j].error = outcome[j]
                  /\ ~isNetworkError(outcome[j]) \/ retryCount[j] = maxRetries
            /\ (response[j].status # 0) = (promise[j].state # "pending"))
    /\ [][\A j \in Jobs :
            (jobState[j] = "running" /\ outcome'[j] = "silence") =>
                (jobState'[j] = "returned" /\ retryCount'[j] = retryCount[j] /\ attempts'[j] = attempts[j])]_vars
    /\ [][\A j \in Jobs :
            outcome[j] = "silence" =>
                (outcome'[j] = "silence" /\ retryCount'[j] = retryCount[j] /\ attempts'[j] = attempts[j])]_vars

\* C11 witness: one job was answered 'No speech detected' after a call with
\* no results, another one was answered with HTTP 500 at the retry ceiling
C11_Witness ==
    \E j, k \in Jobs :
        /\ outcome[j] = "silence" /\ response[j].status = 200 /\ response[j].error = "No speech detected"
        /\ response[k].status = 500 /\ isNetworkError(outcome[k]) /\ retryCount[k] = maxRetries

\* the canonical items of the registered aliases the normalized transcript contains
AliasItemsOn(transcript, dict) ==
    LET lower == Trim(ToLowerCase(transcript))
        pairs == AliasPairs(dict)
    IN {pairs[i][1] : i \in {k \in 1..Len(pairs) : IsStr(pairs[k][2]) /\ Includes(lower, ToLowerCase(pairs[k][2]))}}

\* C12: when the normalized primary transcript contains a registered alias,
\* the resolved canonicalItem is the canonical item of an alias found on the
\* primary transcript, whatever the alternatives resolve to.
C12_PrimaryAliasWins ==
    (Compared /\ AliasItemsOn(req.transcript, req.aliasDictionary) # {})
        => resp.new.canonicalItem \in AliasItemsOn(req.transcript, req.aliasDictionary)

\* the transcripts classified in the response, each with its operation
Classified ==
    IF resp.kind = "stt"
    THEN {<<v.transcript, v.operation>> :
              v \in {resp.googleSttVersion1, resp.googleSttVersion2, resp.googleSttVersion3}}
    ELSE IF Compared THEN {<<req.transcript, resp.new.operation>>, <<req.transcript, resp.current.operation>>}
    ELSE {}

\* the transcript contains a word of the vocabulary as a whole word
HasWordOf(transcript, vocabulary) == \E w \in vocabulary : HasWord(ToLowerCase(transcript), w)

\* C13: the operation of a transcript is ERASE when it contains an
\* erase-family word as a whole word, whatever else it contains; otherwise
\* ADD for an add word, otherwise SUBTRACT for a subtract word, otherwise SET
\* (with or without a set word).
C13_OperationPriority ==
    \A c \in Classified :
        c[2] = IF HasWordOf(c[1], EraseWords) THEN "ERASE"
               ELSE IF HasWordOf(c[1], AddWords) THEN "ADD"
               ELSE IF HasWordOf(c[1], SubtractWords) THEN "SUBTRACT"
               ELSE "SET"

\* C13 witness: the primary transcript holds an erase word and an add word
\* and is classified ERASE, and another version without any vocabulary word
\* or with a lower-priority word is classified too
C13_Witness ==
    /\ resp.kind = "stt"
    /\ HasWordOf(req.transcript, EraseWords)
    /\ HasWordOf(req.transcript, AddWords)
    /\ resp.googleSttVersion1.operation = "ERASE"
    /\ resp.googleSttVersion2.operation = "ADD"

\* C14: an ERASE reports the value 0 whatever digits or number words the
\* transcript holds, and an ERASE whose variants resolve to exactly one item
\* needs no confirmation.
C14_EraseZeroAndCommits ==
    /\ resp.kind = "stt" =>
          \A v \in {resp.googleSttVersion1, resp.googleSttVersion2, resp.googleSttVersion3} :
              v.operation = "ERASE" => v.value = Num(0)
    /\ (Compared /\ resp.new.operation = "ERASE") =>
          /\ resp.new.value = Num(0)
          /\ Cardinality(Candidates) = 1 => ~resp.new.needsConfirmation

\* the transcripts a value was extracted from, each with the value: the
\* versions and resolutions whose operation is not ERASE
Extracted ==
    IF resp.kind = "stt"
    THEN {<<v.transcript, v.value>> :
              v \in {w \in {resp.googleSttVersion1, resp.googleSttVersion2, resp.googleSttVersion3} :
                         w.operation # "ERASE"}}
    ELSE IF Compared /\ resp.new.operation # "ERASE" THEN {<<req.transcript, resp.new.value>>}
    ELSE {}

\* the maximal runs of digits of s, attached to letters or not, as
\* <<first, last>> positions
MaximalDigitRuns(s) ==
    {p \in (1..Len(s)) \X (1..Len(s)) :
        /\ p[1] <= p[2]
        /\ \A k \in p[1]..p[2] : IsDigit(s[k])
        /\ (p[1] = 1 \/ ~IsDigit(s[p[1] - 1]))
        /\ (p[2] = Len(s) \/ ~IsDigit(s[p[2] + 1]))}

\* the numbers that literally occur in s: the values of its digit runs and
\* of the number words of the table it contains
NumbersPresent(s) ==
    {Num(ParseInt(SubSeq(s, p[1], p[2]))) : p \in MaximalDigitRuns(s)}
        \cup {Num(e[2]) : e \in {x \in numberWords : Includes(ToLowerCase(s), x[1])}}

\* C15: the value extracted from a transcript is null, or the value of a
\* digit run or of a number word of the table that occurs in the transcript.
C15_NoInventedNumber ==
    \A x \in Extracted : x[2] = NullValue \/ x[2] \in NumbersPresent(x[1])

\* C16: a transcript that holds a run of digits anywhere, attached to
\* letters or not and with or without number words beside it, yields the
\* value of its first digit run.
C16_FirstDigitRunWins ==
    \A x \in Extracted :
        MaximalDigitRuns(x[1]) # {} =>
            LET first == CHOOSE p \in MaximalDigitRuns(x[1]) : \A q \in MaximalDigitRuns(x[1]) : p[1] <= q[1]
            IN x[2] = Num(ParseInt(SubSeq(x[1], first[1], first[2])))

\* C17: calculateSimilarity of a non-empty string with itself is 1.0, and
\* calculateSimilarity of two strings is the same number in both argument
\* orders.
C17_SimilarityReflexiveSymmetric ==
    resp.kind = "similarity" =>
        /\ req.str1 # <<>> => FracEq(resp.self, <<1, 1>>)
        /\ FracEq(resp.forward, resp.backward)

\* C17 witness: two strings with bigram sets of different sizes that share a
\* bigram were scored, strictly between 0 and 1
C17_Witness ==
    /\ resp.kind = "similarity"
    /\ Cardinality(Bigrams(req.str1)) # Cardinality(Bigrams(req.str2))
    /\ FracLess(<<0, 1>>, resp.forward)
    /\ FracLess(resp.forward, <<1, 1>>)

\* the transcript variants of the request, normalized
Variants ==
    LET all == <<req.transcript>> \o req.alternatives
    IN {Trim(ToLowerCase(all[i])) : i \in 1..Len(all)}

\* the normalized variant contains no registered alias and no master item
NoAliasNoExact(lower) ==
    /\ AliasItemsOn(lower, req.aliasDictionary) = {}
    /\ \A i \in 1..Len(req.masterList) : ~Includes(lower, ToLowerCase(req.masterList[i]))

\* the similarity of the normalized variant to the item is at least 0.60
Similar(lower, item) == FracGeq(calculateSimilarity(lower, ToLowerCase(item)), <<60, 100>>)

\* C18: a variant without alias hit and without exact hit contributes a
\* candidate only when its similarity to a master item is at least 0.60: a
\* fuzzy result has confidence at least 0.60, every entry of topChoices is
\* owed to an alias hit, an exact hit or such a similarity, and when every
\* variant is without alias and exact hit and below 0.60 on every item the
\* result is 'UNMAPPED' with no candidate in topChoices.
C18_FuzzyFloor ==
    Compared =>
        /\ resp.new.matchType = "fuzzy" =>
              /\ FracGeq(resp.new.confidence, <<60, 100>>)
              /\ \E v \in Variants : NoAliasNoExact(v) /\ Similar(v, resp.new.canonicalItem)
        /\ \A t \in Range(resp.new.topChoices) \ {UNMAPPED} :
              \E v \in Variants :
                  \/ t \in AliasItemsOn(v, req.aliasDictionary)
                  \/ Includes(v, ToLowerCase(t))
                  \/ NoAliasNoExact(v) /\ Similar(v, t)
        /\ (\A v \in Variants : NoAliasNoExact(v) /\ \A i \in 1..Len(req.masterList) : ~Similar(v, req.masterList[i]))
              => /\ resp.new.canonicalItem = UNMAPPED
                 /\ resp.new.matchType = "none"
                 /\ Range(resp.new.topChoices) = {UNMAPPED}

\* C18 witness: the primary transcript scores above 0 and below 0.60 on a
\* master item, no variant has a candidate, and the result is 'UNMAPPED'
C18_Witness ==
    /\ Compared
    /\ \A v \in Variants : NoAliasNoExact(v) /\ \A i \in 1..Len(req.masterList) : ~Similar(v, req.masterList[i])
    /\ \E i \in 1..Len(req.masterList) :
          FracGeq(calculateSimilarity(Trim(ToLowerCase(req.transcript)), ToLowerCase(req.masterList[i])), <<50, 100>>)
    /\ req.alternatives # <<>>
    /\ resp.new.canonicalItem = UNMAPPED

\* the request of the scenario: "rebs at twelve" on the master list
\* RIBS, CRABS with an empty alias dictionary and no alternatives
RebsScenario ==
    /\ req.kind = "compare"
    /\ req.transcript = sRebsAtTwelve
    /\ req.alternatives = <<>>
    /\ req.masterList = <<RIBS, CRABS>>
    /\ req.aliasDictionary = <<>>

\* C19 as stated: in the scenario RIBS and CRABS are both fuzzy candidates
\* with similarity at least 0.60, and the resolution needs confirmation.
C19_RebsBothCandidates ==
    (RebsScenario /\ Compared) =>
        /\ Similar(Trim(ToLowerCase(req.transcript)), RIBS)
        /\ Similar(Trim(ToLowerCase(req.transcript)), CRABS)
        /\ {RIBS, CRABS} \subseteq Range(resp.new.topChoices)
        /\ resp.new.needsConfirmation

\* C19 amended: in the scenario the similarities are 2/16 to RIBS and 2/17 to
\* CRABS, both below 0.60; neither is a candidate, the item is 'UNMAPPED'
\* with confidence 0, topChoices holds 'UNMAPPED' three times, the operation
\* is SET with value 12, confirmation is needed and no alias is saved.
C19_RebsUnmapped ==
    (RebsScenario /\ Compared) =>
        /\ calculateSimilarity(Trim(ToLowerCase(req.transcript)), ToLowerCase(RIBS)) = <<2, 16>>
        /\ calculateSimilarity(Trim(ToLowerCase(req.transcript)), ToLowerCase(CRABS)) = <<2, 17>>
        /\ resp.new.canonicalItem = UNMAPPED
        /\ resp.new.matchType = "none"
        /\ resp.new.confidence = NoConfidence
        /\ resp.new.topChoices = <<UNMAPPED, UNMAPPED, UNMAPPED>>
        /\ resp.new.operation = "SET"
        /\ resp.new.value = Num(12)
        /\ resp.new.needsConfirmation
        /\ resp.new.aliasToSave = Null

\* C19 witness: the scenario was resolved
C19_Witness == RebsScenario /\ Compared /\ resp.new.canonicalItem = UNMAPPED

\* the tiers through which the variants of the request reach the item
TiersOf(item) ==
    LET variants == <<req.transcript>> \o req.alternatives
        results == [i \in 1..Len(variants) |-> ResolveVariant(variants[i], req.masterList, req.aliasDictionary)]
    IN {results[i].source : i \in {k \in 1..Len(variants) : results[k].canonicalItem = item}}

\* C20: in topChoices a candidate found through an alias never stands after
\* a candidate found only through a fuzzy match, and the 'UNMAPPED' padding
\* follows all candidates.
C20_TopChoicesByTier ==
    Compared =>
        \A i, k \in 1..Len(resp.new.topChoices) :
            i < k =>
                /\ resp.new.topChoices[i] = UNMAPPED => resp.new.topChoices[k] = UNMAPPED
                /\ ~(/\ resp.new.topChoices[k] # UNMAPPED
                     /\ "alias" \in TiersOf(resp.new.topChoices[k])
                     /\ TiersOf(resp.new.topChoices[i]) = {"fuzzy"})

\* the aliases registered for the item in the dictionary
AliasesOf(item, dict) ==
    LET pairs == AliasPairs(dict)
    IN {pairs[i][2] : i \in {k \in 1..Len(pairs) : pairs[k][1] = item}}

\* C21: when the normalized primary transcript is already an alias of the
\* resolved item, no alias is recommended for saving.
C21_NoDuplicateLearning ==
    (Compared /\ Trim(ToLowerCase(req.transcript)) \in AliasesOf(resp.new.canonicalItem, req.aliasDictionary))
        => resp.new.aliasToSave = Null

\* C22: a parse-command request whose master list is missing or empty is
\* answered with status 400 and the error 'Master list required'; the
\* answer of the model is never used for it.
C22_EmptyMasterListRejected ==
    (resp.kind = "parse" /\ req.transcript # <<>> /\ req.masterList \in {Null, <<>>})
        => (resp.status = 400 /\ ~resp.success /\ resp.error = "Master list required")

\* C23: no alias dictionary makes the resolution throw: with a non-string
\* entry among the aliases the request is still resolved.
C23_NonStringAliasNeverThrows ==
    resp.kind = "compare" => ~resp.threw

\* C28: whenever resolveNewProtocol returns an item other than 'UNMAPPED',
\* that item is one of the three topChoices, for any number of alternatives.
C28_ResolvedItemAmongTopChoices ==
    (Compared /\ resp.new.canonicalItem # UNMAPPED) =>
    \E i \in 1..Len(resp.new.topChoices) : resp.new.topChoices[i] = resp.new.canonicalItem

\* job j has been started and its promise settled
Served(j) ==
    /\ \E i \in 1..Len(startOrder) : startOrder[i] = j
    /\ promise[j].state # "pending"

\* C27: when every awaited call answers (FairSpecQueue), the queue comes
\* again and again to a state in which every job handed to add() so far has
\* been started and its promise settled: whatever the order of arrivals, and
\* also when jobs before it threw, no submitted job waits forever.
C27_EverySubmissionServed ==
    []<>(\A j \in Jobs : (jobState[j] # "new") => Served(j))

\* C27 witness: the first job was rejected, and the jobs submitted behind it
\* were started and settled all the same
C27_Witness ==
    /\ startOrder = submitOrder
    /\ Len(startOrder) = NumJobs
    /\ promise[startOrder[1]].state = "rejected"
    /\ \A j \in Jobs : promise[j].state # "pending"

C25_CacheValidatedByHash ==
    /\ got # NoGet => got.result = got.expected
    /\ \A k \in CacheKeys :
          /\ (cache[k] # NoEntry) = (stored[k].fate = "live")
          /\ cache[k] # NoEntry =>
                (cache[k].data = stored[k].data /\ cache[k].inventoryHash = stored[k].hash)

\* C25 witness: a key was invalidated by a call with another hash, and the
\* call with the hash it was stored with has then returned null
C25_Witness ==
    /\ got # NoGet
    /\ stored[got.key].fate = "invalidated"
    /\ stored[got.key].hash = got.hash
    /\ got.result = "null"

(***************************************************************************)
(* Properties of saving a master list (SpecProjects).                      *)
(***************************************************************************)
\* letters, digits, dash, underscore and whitespace
AllowedInName == Letters \cup Digits \cup {"-", "_", " ", "\t", "\n"}

\* the characters of a directory name that stays inside data/projects
AllowedInDir == Letters \cup Digits \cup {"-", "_"}

\* the names the claim calls invalid: not a string, empty, longer than 100
\* characters, or holding a character that is no letter, digit, dash,
\* underscore or whitespace
Forbidden(name) ==
    \/ name = Null
    \/ Len(name) = 0
    \/ Len(name) > 100
    \/ \E i \in 1..Len(name) : name[i] \notin AllowedInName

\* C26: a request to save a master list under a forbidden project name is
\* answered with status 400 and creates no directory and no file; every
\* directory that exists is named by letters, digits, dashes and underscores
\* only, so none lies outside the data directory.
C26_InvalidNameRejected ==
    [][/\ Forbidden(saveAnswer'.projectName) =>
              (saveAnswer'.status = 400 /\ projectDirs' = projectDirs)
       /\ \A d \in projectDirs' :
              \A i \in 1..Len(d) : d[i] \in AllowedInDir]_vars

\* C26 witness: a valid name has created a directory, and a request with a
\* name holding "/" or "." has then been answered 400
C26_Witness ==
    /\ projectDirs # {}
    /\ saveAnswer.projectName \in {<<".", ".">>, <<"/", "a">>}
    /\ saveAnswer.items = <<"CHICKEN">>
    /\ saveAnswer.status = 400

(***************************************************************************)
(* Properties of the global alias store (SpecAliasStore).                  *)
(***************************************************************************)
\* the sequence holds no string twice
NoDuplicates(list) == \A i, j \in 1..Len(list) : list[i] = list[j] => i = j

\* the lower-cased, trimmed forms of the non-blank transcripts of a request
NormalizedOf(save) ==
    LET all == <<save.googleTranscript>> \o
               (IF save.googleAlternatives = Null THEN <<>> ELSE save.googleAlternatives)
    IN {Trim(ToLowerCase(all[i])) : i \in {k \in 1..Len(all) : Trim(all[k]) # <<>>}}

\* C29: starting from a duplicate-free store, after every transcribe-mapping
\* request no item's alias list holds a string twice; a request whose
\* normalized transcripts are all in the target's list already leaves the
\* file unwritten and unchanged; and a request changes no list but the
\* target's.
C29_AutoSaveKeepsListsDuplicateFree ==
    [][/\ \A item \in AliasItems : NoDuplicates(globalAliases'[item])
       /\ (lastSave'.targetItem # Null
             /\ NormalizedOf(lastSave') \subseteq Range(globalAliases[lastSave'.targetItem]))
          => (~lastSave'.wrote /\ globalAliases' = globalAliases)
       /\ \A item \in AliasItems :
             item # lastSave'.targetItem => globalAliases'[item] = globalAliases[item]]_vars

\* C29 witness: a request has added aliases to an item, and the request after
\* it, with transcripts that are all in the list, wrote nothing
C29_Witness ==
    /\ lastSave.targetItem = RIBS
    /\ lastSave.googleTranscript = sCrabPadded
    /\ lastSave.googleAlternatives = <<sCrab, sRebs>>
    /\ ~lastSave.wrote
    /\ Len(globalAliases[RIBS]) = 3
    /\ autoSaved # {}

(***************************************************************************)
(* Properties of the alias store with clients (SpecAliasClients).          *)
(***************************************************************************)
\* C30: an alias the auto-save has written for an item is in the item's list
\* of the store, whatever transcribe-mapping requests and whatever client
\* reads and whole-dictionary writes have happened since.
C30_NoSavedAliasLost ==
    \A saved \in autoSaved : saved[2] \in Range(globalAliases[saved[1]])

====
